---- MODULE Spec2Model ----
(***************************************************************************)
(* A model of examples/explain_mnist.py of TorchLRP: the driver that       *)
(* prepares a model, fits or loads the PatternNet patterns, and runs the   *)
(* eight attribution calls on one shared input batch.                      *)
(*                                                                         *)
(* The driver is sequential; pc is its position (the source line about to  *)
(* run).  A tensor is a heap object (Python reference semantics), holding  *)
(* one pixel per sample; x.grad is a reference into the heap.  The          *)
(* library the driver calls (lrp, utils) is not part of the source: its    *)
(* behaviour is taken from the specification of the system.                *)
(***************************************************************************)
EXTENDS Integers, Sequences, FiniteSets, TLC

(***************************************************************************)
(* Bounds of the model.                                                    *)
(***************************************************************************)
MaxRuns == 3        \* runs of main, one process after the other
MaxBatch == 17      \* --batch_size ranges over 1..MaxBatch
NumWeights == 2     \* distinct weight vectors a training can end with
NumClasses == 3     \* output classes of the classifier
NumLayers == 2      \* layers that carry a Pattern
MaxAnyCalls == 2    \* run_and_plot_rule calls with free arguments
NumTrainBatches == 3 \* batches of the training set
NumShards == 2      \* workers of the Pattern Fitter

(***************************************************************************)
(* Constants of the program.                                               *)
(***************************************************************************)
MaxPlot == 16       \* min(args.batch_size, 16)
NRow == 4           \* nrow=4 of prepare_batch_for_plotting
LabelStride == 4    \* preds[i*4+j]
Cell == 30          \* (shape - 2) // 30, 28+j*30
Border == 2         \* (shape - 2) // 30
ImgSize == 28       \* an MNIST image, 28+j*30
Padding == 2        \* make_grid(a, nrow=nrow): its default padding
NumCalls == 8       \* the run_and_plot_rule calls of main

VARIABLES
    run,            \* processes started so far
    pc,             \* position of the running process
    args,           \* the parsed command line
    modelFile,      \* weights stored on disk, 0: no file
    exists,         \* the pattern files that exist
    disk,           \* the content of each pattern file
    weights,        \* weights of the model in memory, 0: untrained
    n,              \* num_samples_plot
    heap,           \* the tensors of the process
    xgrad,          \* x.grad: a heap reference, 0: None
    pred,           \* pred of main
    patterns_all, patterns_pos,
    callIdx,        \* run_and_plot_rule calls issued by this process
    call,           \* arguments of the current call
    patLocal,       \* the list made by list(patterns_...)
    cache,          \* activation cache of the model: <<>> or <<entry>>
    y_hat,          \* output of the explain-mode forward pass
    seed,           \* d(y_hat.sum())/d(output), per sample and class
    attr,           \* attr of run_and_plot_rule: a heap reference
    colors,         \* shape of the heat map prepare_batch_for_plotting made
    labelReads,     \* indices plot_attribution read preds at, in order
    hist,           \* history: what the claims need to remember
    fit             \* the Pattern Fitter: batches, shards, accumulators

vars == <<run, pc, args, modelFile, exists, disk, weights, n, heap, xgrad,
          pred, patterns_all, patterns_pos, callIdx, call, patLocal, cache,
          y_hat, seed, attr, colors, labelReads, hist, fit>>

(***************************************************************************)
(* Values.                                                                 *)
(***************************************************************************)
Paths == {"all", "pos"}         \* pattern_all.pkl, pattern_pos.pkl
Rules == {"gradient", "epsilon", "alpha1beta0", "alpha2beta1",
          "patternattribution", "patternnet"}
PatternRules == {"patternattribution", "patternnet"}
Stopped == {"idle", "done", "IndexError", "UnknownRuleError",
            "MissingPatternError", "StaleActivationError"}

Min(a, b) == IF a < b THEN a ELSE b
Sgn(a) == IF a < 0 THEN -1 ELSE IF a > 0 THEN 1 ELSE 0

RECURSIVE SumSeq(_)
SumSeq(s) == IF s = <<>> THEN 0 ELSE Head(s) + SumSeq(Tail(s))

\* The first m images of the first test batch, one pixel each.
TestBatch(m) == [k \in 1..m |-> k % 3]

\* The classifier: the output row of every sample, for weights w.
ModelOutput(w, xv) ==
    [k \in 1..Len(xv) |->
        [c \in 1..NumClasses |-> ((w + c) * (xv[k] + 1) + c * k) % 5]]

\* t.max(1)[1] of one row: the index of the first maximal entry.
ArgMax(row) ==
    CHOOSE c \in 1..Len(row) :
        /\ \A d \in 1..Len(row) : row[d] <= row[c]
        /\ \A d \in 1..(c - 1) : row[d] < row[c]

ArgMin(row) ==
    CHOOSE c \in 1..Len(row) :
        /\ \A d \in 1..Len(row) : row[d] >= row[c]
        /\ \A d \in 1..(c - 1) : row[d] > row[c]

\* fit_patternnet / fit_patternnet_positive: one Pattern per layer, a
\* function of the variant and of the weights of the model it is fitted on.
FitPattern(p, w) ==
    [l \in 1..NumLayers |-> [variant |-> p, layer |-> l, w |-> w]]

\* What the backward pass of a rule adds to x.grad, per sample.
PatTerm(pat) ==
    SumSeq([l \in 1..Len(pat) |->
                pat[l].w + (IF pat[l].variant = "pos" THEN 3 ELSE 0)])
RuleNo(r) ==
    CASE r = "gradient" -> 1 [] r = "epsilon" -> 2 [] r = "alpha1beta0" -> 3
      [] r = "alpha2beta1" -> 4 [] r = "patternattribution" -> 5
      [] OTHER -> 6
Attribution(c, sel) ==
    [k \in 1..Len(c.x) |->
        7 * RuleNo(c.rule) + c.w + c.x[k] + PatTerm(c.pattern)
          + SumSeq([d \in 1..NumClasses |-> d * sel[k][d]])]

(***************************************************************************)
(* prepare_batch_for_plotting and plot_attribution.                        *)
(***************************************************************************)
\* a /= abs(a).max() + 1e-6, per sample: with one pixel per sample every
\* entry becomes its sign (scaled by 1/(1 + 1e-6/|a|)), zero staying zero.
Normalised(t) == [k \in 1..Len(t) |-> Sgn(t[k])]

\* torchvision.utils.make_grid(a, nrow=4) with its default padding: one
\* image is returned as it is, more are laid out in rows of min(nrow, m).
GridShape(m) ==
    IF m = 1 THEN <<ImgSize, ImgSize>>
    ELSE LET xmaps == Min(NRow, m)
             ymaps == (m + xmaps - 1) \div xmaps
         IN  <<ymaps * (ImgSize + Padding) + Padding,
               xmaps * (ImgSize + Padding) + Padding>>

\* The indices i*4+j of the two loops of plot_attribution, in order.
LabelIndices(shape) ==
    LET rows == (shape[1] - Border) \div Cell
        cols == (shape[2] - Border) \div Cell
    IN  [t \in 1..(rows * cols) |->
            ((t - 1) \div cols) * LabelStride + ((t - 1) % cols)]

\* preds[i] raises IndexError for i >= len(preds): the reads made are those
\* up to and including the first one out of range.
ReadsOf(idx, len) ==
    LET bad == {t \in 1..Len(idx) : idx[t] >= len}
        stop == IF bad = {} THEN Len(idx)
                ELSE CHOOSE t \in bad : \A u \in bad : t <= u
    IN  SubSeq(idx, 1, stop)

(***************************************************************************)
(* The state before the first process starts.                              *)
(***************************************************************************)
NoHist ==
    [checked |-> {}, existed |-> {}, fitted |-> {}, wrote |-> {},
     fitCount |-> [p \in Paths |-> 0], writeCount |-> [p \in Paths |-> 0],
     snap |-> [p \in Paths |-> <<>>], preGrad |-> 0, preCache |-> <<>>,
     preHeap |-> <<>>]
NoFit == [pcf |-> "off"]
NoCall == [rule |-> "", post |-> FALSE, pat |-> "none", copy |-> FALSE]

\* No process has run: nothing in memory, no file on disk.
Blank ==
    /\ run = 0 /\ pc = "idle"
    /\ args = [batch_size |-> 1, train_new |-> FALSE]
    /\ modelFile = 0 /\ exists = {} /\ disk = [p \in Paths |-> <<>>]
    /\ weights = 0 /\ n = 0 /\ heap = <<>> /\ xgrad = 0 /\ pred = <<>>
    /\ patterns_all = <<>> /\ patterns_pos = <<>>
    /\ callIdx = 0 /\ call = NoCall /\ patLocal = <<>> /\ cache = <<>>
    /\ y_hat = <<>> /\ seed = <<>> /\ attr = 0 /\ colors = <<0, 0>>
    /\ labelReads = <<>> /\ hist = NoHist

Init == Blank /\ fit = NoFit

fileVars == <<modelFile, exists, disk>>
callVars == <<callIdx, call, patLocal, cache, y_hat, seed, attr>>
plotVars == <<colors, labelReads>>
patVars == <<patterns_all, patterns_pos>>

(***************************************************************************)
(* main, lines 55-70.                                                      *)
(***************************************************************************)
\* A new process: the previous one has ended, its memory is gone, the
\* files stay.  num_samples_plot = min(args.batch_size, 16).
StartRun ==
    /\ pc \in Stopped /\ run < MaxRuns
    /\ \E b \in 1..MaxBatch, t \in BOOLEAN :
          /\ args' = [batch_size |-> b, train_new |-> t]
          /\ n' = Min(b, MaxPlot)
    /\ run' = run + 1 /\ pc' = "l59"
    /\ weights' = 0 /\ heap' = <<>> /\ xgrad' = 0 /\ pred' = <<>>
    /\ patterns_all' = <<>> /\ patterns_pos' = <<>>
    /\ callIdx' = 0 /\ call' = NoCall /\ patLocal' = <<>> /\ cache' = <<>>
    /\ y_hat' = <<>> /\ seed' = <<>> /\ attr' = 0 /\ colors' = <<0, 0>>
    /\ labelReads' = <<>>
    /\ hist' = [NoHist EXCEPT !.fitCount = hist.fitCount,
                              !.writeCount = hist.writeCount]
    /\ UNCHANGED <<fit, fileVars>>

\* prepare_mnist_model: the stored weights are loaded unless there are none
\* or train_new asks for a training, whose result is then stored.
PrepareModel ==
    /\ pc = "l59"
    /\ IF modelFile # 0 /\ ~args.train_new
       THEN weights' = modelFile /\ UNCHANGED modelFile
       ELSE \E w \in 1..NumWeights : weights' = w /\ modelFile' = w
    /\ pc' = "l63"
    /\ UNCHANGED <<fit, run, args, exists, disk, n, heap, xgrad, pred, patVars,
                   callVars, plotVars, hist>>

\* x, y = next(iter(test_loader)); x = x[:num_samples_plot];
\* x.requires_grad_(True): x is tensor 1 of the heap, its grad is None.
SampleBatch ==
    /\ pc = "l63"
    /\ heap' = <<TestBatch(n)>> /\ xgrad' = 0
    /\ pc' = "l69"
    /\ UNCHANGED <<fit, run, args, fileVars, weights, n, pred, patVars, callVars,
                   plotVars, hist>>

\* with torch.no_grad(): y_hat = model(x); pred = y_hat.max(1)[1]
Predict ==
    /\ pc = "l69"
    /\ pred' = [k \in 1..n |-> ArgMax(ModelOutput(weights, heap[1])[k])]
    /\ pc' = "l95"
    /\ UNCHANGED <<fit, run, args, fileVars, weights, n, heap, xgrad, patVars,
                   callVars, plotVars, hist>>

(***************************************************************************)
(* main, lines 93-106: the patterns, fitted or loaded.                     *)
(***************************************************************************)
CheckLine(p) == IF p = "all" THEN "l95" ELSE "l102"
FitLine(p) == IF p = "all" THEN "l96" ELSE "l103"
StoreLine(p) == IF p = "all" THEN "l97" ELSE "l104"
LoadLine(p) == IF p = "all" THEN "l99" ELSE "l106"
AfterLine(p) == IF p = "all" THEN "l102" ELSE "l112"
PatternsOf(p) == IF p = "all" THEN patterns_all ELSE patterns_pos

SetPatterns(p, v) ==
    IF p = "all" THEN patterns_all' = v /\ UNCHANGED patterns_pos
    ELSE patterns_pos' = v /\ UNCHANGED patterns_all

\* The existence check dropped: every run fits and stores.
FitAlways(p) == TRUE

\* The branch taken at `if not os.path.exists(path)`.
FitBranch(p) == p \notin exists

\* if not os.path.exists(path):
CheckPatterns(p) ==
    /\ pc = CheckLine(p)
    /\ pc' = IF FitBranch(p) THEN FitLine(p) ELSE LoadLine(p)
    /\ hist' = [hist EXCEPT !.checked = @ \cup {p},
                            !.existed = IF p \in exists THEN @ \cup {p} ELSE @]
    /\ UNCHANGED <<fit, run, args, fileVars, weights, n, heap, xgrad, pred,
                   patVars, callVars, plotVars>>

\* patterns = fit_patternnet(model, train_loader)
FitPatterns(p) ==
    /\ pc = FitLine(p)
    /\ SetPatterns(p, FitPattern(p, weights))
    /\ pc' = StoreLine(p)
    /\ hist' = [hist EXCEPT !.fitted = @ \cup {p},
                            !.fitCount[p] = @ + 1]
    /\ UNCHANGED <<fit, run, args, fileVars, weights, n, heap, xgrad, pred,
                   callVars, plotVars>>

\* store_patterns(path, patterns): pickle.dump into the opened file.
StorePatterns(p) ==
    /\ pc = StoreLine(p)
    /\ exists' = exists \cup {p}
    /\ disk' = [disk EXCEPT ![p] = PatternsOf(p)]
    /\ pc' = AfterLine(p)
    /\ hist' = [hist EXCEPT !.wrote = @ \cup {p},
                            !.writeCount[p] = @ + 1,
                            !.snap[p] = PatternsOf(p)]
    /\ UNCHANGED <<fit, run, args, modelFile, weights, n, heap, xgrad, pred,
                   patVars, callVars, plotVars>>

\* patterns = load_patterns(path): pickle.load of the file's content.
LoadPatterns(p) ==
    /\ pc = LoadLine(p)
    /\ SetPatterns(p, disk[p])
    /\ pc' = AfterLine(p)
    /\ hist' = [hist EXCEPT !.snap[p] = disk[p]]
    /\ UNCHANGED <<fit, run, args, fileVars, weights, n, heap, xgrad, pred,
                   callVars, plotVars>>

(***************************************************************************)
(* prepare_batch_for_plotting(a) and plot_attribution(a, ax_, preds, ..)   *)
(* as the steps of their callers.                                          *)
(***************************************************************************)
\* The heap after `a /= ...` on the tensor a refers to; the later
\* a = (a+1) / 2 binds a new tensor and leaves the argument alone.
NormaliseInPlace(h, a) == [h EXCEPT ![a] = Normalised(@)]

\* The loops of plot_attribution over the heat map `colors`.
PlotLabels(next) ==
    LET reads == ReadsOf(LabelIndices(colors), Len(pred))
    IN  /\ labelReads' = reads
        /\ pc' = IF \E t \in 1..Len(reads) : reads[t] >= Len(pred)
                 THEN "IndexError" ELSE next

\* x_plot = prepare_batch_for_plotting(x*2.-1, cmap='gray')
PrepareInput ==
    /\ pc = "l112"
    /\ heap' = NormaliseInPlace(
                  Append(heap, [k \in 1..n |-> 2 * heap[1][k] - 1]),
                  Len(heap) + 1)
    /\ colors' = GridShape(n)
    /\ pc' = "l113"
    /\ UNCHANGED <<fit, run, args, fileVars, weights, n, xgrad, pred, patVars,
                   callVars, labelReads, hist>>

\* plot_attribution(x_plot, ax[0, 0], pred, "Input")
PlotInput ==
    /\ pc = "l113"
    /\ PlotLabels("main")
    /\ UNCHANGED <<fit, run, args, fileVars, weights, n, heap, xgrad, pred,
                   patVars, callVars, colors, hist>>

(***************************************************************************)
(* main, lines 116-126: the calls of run_and_plot_rule.                    *)
(***************************************************************************)
\* Line 125 passing patterns_pos where patterns_all is meant.
CallTableSwapped ==
    << [rule |-> "gradient", post |-> TRUE, pat |-> "none", copy |-> FALSE],
       [rule |-> "epsilon", post |-> FALSE, pat |-> "none", copy |-> FALSE],
       [rule |-> "alpha1beta0", post |-> FALSE, pat |-> "none", copy |-> FALSE],
       [rule |-> "alpha2beta1", post |-> FALSE, pat |-> "none", copy |-> FALSE],
       [rule |-> "patternattribution", post |-> FALSE, pat |-> "all", copy |-> TRUE],
       [rule |-> "patternattribution", post |-> FALSE, pat |-> "pos", copy |-> TRUE],
       [rule |-> "patternnet", post |-> FALSE, pat |-> "pos", copy |-> FALSE],
       [rule |-> "patternnet", post |-> FALSE, pat |-> "pos", copy |-> FALSE] >>

CallTable ==
    << [rule |-> "gradient", post |-> TRUE, pat |-> "none", copy |-> FALSE],
       [rule |-> "epsilon", post |-> FALSE, pat |-> "none", copy |-> FALSE],
       [rule |-> "alpha1beta0", post |-> FALSE, pat |-> "none", copy |-> FALSE],
       [rule |-> "alpha2beta1", post |-> FALSE, pat |-> "none", copy |-> FALSE],
       [rule |-> "patternattribution", post |-> FALSE, pat |-> "all", copy |-> TRUE],
       [rule |-> "patternattribution", post |-> FALSE, pat |-> "pos", copy |-> TRUE],
       [rule |-> "patternnet", post |-> FALSE, pat |-> "all", copy |-> FALSE],
       [rule |-> "patternnet", post |-> FALSE, pat |-> "pos", copy |-> FALSE] >>

\* Entry of run_and_plot_rule with arguments c; list(patterns) is a new
\* list of the same Patterns.
Enter(c) ==
    /\ call' = c
    /\ callIdx' = callIdx + 1
    /\ patLocal' = IF c.copy THEN PatternsOf(c.pat) ELSE <<>>
    /\ hist' = [hist EXCEPT !.preGrad = xgrad, !.preCache = cache,
                            !.preHeap = heap]
    /\ pc' = "l74"
    /\ UNCHANGED <<fit, run, args, fileVars, weights, n, heap, xgrad, pred,
                   patVars, cache, y_hat, seed, attr, plotVars>>

MainCall ==
    /\ pc = "main" /\ callIdx < NumCalls
    /\ Enter(CallTable[callIdx + 1])

\* fig.tight_layout(); fig.savefig(...); plt.show()
Finish ==
    /\ pc = "main" /\ callIdx = NumCalls
    /\ pc' = "done"
    /\ UNCHANGED <<fit, run, args, fileVars, weights, n, heap, xgrad, pred,
                   patVars, callVars, plotVars, hist>>

(***************************************************************************)
(* run_and_plot_rule, lines 72-91.                                         *)
(***************************************************************************)
\* The pattern argument as the callee sees it; <<>> stands for None.
PatternArg ==
    IF call.pat = "none" THEN <<>>
    ELSE IF call.copy THEN patLocal ELSE PatternsOf(call.pat)

\* The reset left out: x.grad keeps the tensor of the call before.
GradKept == xgrad

\* x.grad = None
GradAfterReset == 0

ResetGrad ==
    /\ pc = "l74"
    /\ xgrad' = GradAfterReset
    /\ pc' = "l77"
    /\ UNCHANGED <<fit, run, args, fileVars, weights, n, heap, pred, patVars,
                   callVars, plotVars, hist>>

\* What the library does with the call before any layer runs: the Rule
\* Registry resolves the rule, a pattern rule needs a pattern, and a cache
\* left by an earlier forward pass is an error.
ForwardOutcome ==
    IF call.rule \notin Rules THEN "UnknownRuleError"
    ELSE IF call.rule \in PatternRules /\ call.pat = "none"
    THEN "MissingPatternError"
    ELSE IF cache # <<>> THEN "StaleActivationError"
    ELSE "l78"

\* The layer-indexed cache the explain-mode forward pass leaves.
CacheEntry ==
    [rule |-> call.rule, pattern |-> PatternArg, w |-> weights,
     x |-> heap[1], call |-> callIdx]

\* y_hat = model.forward(x, explain=True, rule=rule, pattern=pattern)
Forward ==
    /\ pc = "l77"
    /\ pc' = ForwardOutcome
    /\ IF ForwardOutcome = "l78"
       THEN /\ cache' = <<CacheEntry>>
            /\ y_hat' = ModelOutput(weights, heap[1])
       ELSE UNCHANGED <<cache, y_hat>>
    /\ UNCHANGED <<fit, run, args, fileVars, weights, n, heap, xgrad, pred,
                   patVars, callIdx, call, patLocal, seed, attr, plotVars,
                   hist>>

\* y_hat.min(1)[1] in place of y_hat.max(1)[1].
SelectedMin(row) == ArgMin(row)

\* y_hat.max(1)[1] of one row of the output.
Selected(row) == ArgMax(row)

\* y_hat = y_hat[torch.arange(x.shape[0]), y_hat.max(1)[1]]; y_hat.sum():
\* the derivative of the scalar with respect to each output entry.
Select ==
    /\ pc = "l78"
    /\ seed' = [k \in 1..Len(y_hat) |->
                  [c \in 1..NumClasses |->
                      IF c = Selected(y_hat[k]) THEN 1 ELSE 0]]
    /\ pc' = "l82"
    /\ UNCHANGED <<fit, run, args, fileVars, weights, n, heap, xgrad, pred,
                   patVars, callIdx, call, patLocal, cache, y_hat, attr,
                   plotVars, hist>>

\* The backward pass left out: the driver goes on to read x.grad.
BackwardOmitted ==
    /\ pc = "l82"
    /\ pc' = "l83"
    /\ UNCHANGED <<fit, run, args, fileVars, weights, n, heap, xgrad, pred,
                   patVars, callVars, plotVars, hist>>

\* y_hat.backward(): the attribution of the cached forward pass goes to
\* x.grad, a new tensor when x.grad is None and added in place otherwise;
\* the cache is released.
Backward ==
    /\ pc = "l82"
    /\ IF cache = <<>>
       THEN pc' = "StaleActivationError" /\ UNCHANGED <<heap, xgrad, cache>>
       ELSE LET g == Attribution(cache[1], seed)
            IN  /\ IF xgrad = 0
                   THEN heap' = Append(heap, g) /\ xgrad' = Len(heap) + 1
                   ELSE /\ heap' = [heap EXCEPT ![xgrad] =
                                      [k \in 1..Len(g) |-> @[k] + g[k]]]
                        /\ UNCHANGED xgrad
                /\ cache' = <<>>
                /\ pc' = "l83"
    /\ UNCHANGED <<fit, run, args, fileVars, weights, n, pred, patVars, callIdx,
                   call, patLocal, y_hat, seed, attr, plotVars, hist>>

\* attr = x.grad; if postprocess: attr = postprocess(attr), the new tensor
\* attribution * x.
TakeAttr ==
    /\ pc = "l83"
    /\ IF call.post
       THEN /\ heap' = Append(heap, [k \in 1..n |-> heap[xgrad][k] * heap[1][k]])
            /\ attr' = Len(heap) + 1
       ELSE attr' = xgrad /\ UNCHANGED heap
    /\ pc' = "l89"
    /\ UNCHANGED <<fit, run, args, fileVars, weights, n, xgrad, pred, patVars,
                   callIdx, call, patLocal, cache, y_hat, seed, plotVars,
                   hist>>

\* attr = prepare_batch_for_plotting(attr, cmap=cmap)
PrepareAttr ==
    /\ pc = "l89"
    /\ heap' = NormaliseInPlace(heap, attr)
    /\ colors' = GridShape(Len(heap[attr]))
    /\ pc' = "l91"
    /\ UNCHANGED <<fit, run, args, fileVars, weights, n, xgrad, pred, patVars,
                   callVars, labelReads, hist>>

\* plot_attribution(attr, ax_, pred, title)
PlotAttr ==
    /\ pc = "l91"
    /\ PlotLabels("main")
    /\ UNCHANGED <<fit, run, args, fileVars, weights, n, heap, xgrad, pred,
                   patVars, callVars, colors, hist>>

(***************************************************************************)
(* The program: runs of main, one after the other.                         *)
(***************************************************************************)
Next ==
    \/ StartRun \/ PrepareModel \/ SampleBatch \/ Predict
    \/ \E p \in Paths : CheckPatterns(p)
    \/ \E p \in Paths : FitPatterns(p)
    \/ \E p \in Paths : StorePatterns(p)
    \/ \E p \in Paths : LoadPatterns(p)
    \/ PrepareInput \/ PlotInput \/ MainCall \/ Finish
    \/ ResetGrad \/ Forward \/ Select \/ Backward \/ TakeAttr
    \/ PrepareAttr \/ PlotAttr

Spec == Init /\ [][Next]_vars

(***************************************************************************)
(* Positions of main relative to the two pattern stages.                   *)
(***************************************************************************)
BeforeAll == {"idle", "l59", "l63", "l69", "l95", "l96", "l97", "l99"}
BeforePos == BeforeAll \cup {"l102", "l103", "l104", "l106"}
StageDone(p) == IF p = "all" THEN pc \notin BeforeAll ELSE pc \notin BeforePos

\* The cache entry the forward pass of the current call makes.
OwnEntry ==
    [rule |-> call.rule, pattern |-> PatternArg, w |-> weights,
     x |-> TestBatch(n), call |-> callIdx]

(***************************************************************************)
(* C1: a run never uses, for a pattern-attribution or pattern-net call,    *)
(* patterns fitted against a model whose weights differ from the weights   *)
(* of the current model (the patterns are stored and loaded under a key    *)
(* tied to the model).                                                     *)
(***************************************************************************)
C1_PatternsMatchModel ==
    \A i \in 1..Len(cache) :
        \A l \in 1..Len(cache[i].pattern) :
            cache[i].pattern[l].w = cache[i].w

(***************************************************************************)
(* C2: every backward pass reads the cache of the forward pass of the same *)
(* call, the cache is gone after the backward pass, and no explain-mode    *)
(* forward pass starts while a cache is present.                           *)
(***************************************************************************)
C2_CacheForOneBackward ==
    /\ pc \in {"l78", "l82"} =>
          /\ Len(cache) = 1
          /\ cache[1].call = callIdx
          /\ cache[1].rule = call.rule
    /\ pc \notin {"l78", "l82"} => cache = <<>>

C2_Witness == pc = "l83" /\ callIdx = NumCalls /\ run = 2 /\ cache = <<>>

(***************************************************************************)
(* C4: after the pattern stage the two pattern lists keep the values the   *)
(* fitter produced or the file held, through every attribution call, and   *)
(* the patternattribution and the patternnet call of each variant see      *)
(* exactly those values.                                                   *)
(***************************************************************************)
C4_PatternsNeverMutated ==
    /\ \A p \in Paths :
          StageDone(p) => PatternsOf(p) = hist.snap[p] /\ disk[p] = hist.snap[p]
    /\ \A i \in 1..Len(cache) :
          /\ cache[i].call \in {5, 7} => cache[i].pattern = hist.snap["all"]
          /\ cache[i].call \in {6, 8} => cache[i].pattern = hist.snap["pos"]
          /\ cache[i].call \in 5..8 => Len(cache[i].pattern) = NumLayers

C4_Witness ==
    /\ pc = "l82" /\ callIdx = 7
    /\ cache[1].pattern = patterns_all /\ patterns_all # patterns_pos

(***************************************************************************)
(* C7: per sample exactly one output entry contributes to the scalar that  *)
(* is back-propagated, it is a maximal entry of the explain-mode output,   *)
(* and its class is the class pred holds for the sample.                   *)
(***************************************************************************)
C7_TargetIsPredictedClass ==
    pc = "l82" =>
        \A k \in 1..n :
            /\ Cardinality({c \in 1..NumClasses : seed[k][c] # 0}) = 1
            /\ \A c \in 1..NumClasses :
                  seed[k][c] # 0 =>
                      /\ seed[k][c] = 1
                      /\ \A d \in 1..NumClasses : y_hat[k][d] <= y_hat[k][c]
                      /\ c = pred[k]

C7_Witness ==
    /\ pc = "l82" /\ n >= 4
    /\ \E k, j \in 1..n : pred[k] # pred[j]
    /\ \E k \in 1..n : \E c, d \in 1..NumClasses :
          c # d /\ y_hat[k][c] = y_hat[k][d] /\ seed[k][c] = 1

(***************************************************************************)
(* C8: every index plot_attribution reads preds at is smaller than the     *)
(* number of plotted samples.                                              *)
(***************************************************************************)
C8_LabelIndexInRange ==
    \A t \in 1..Len(labelReads) : labelReads[t] < n

(***************************************************************************)
(* C9: x.grad is None when a backward pass starts, the attribution of a    *)
(* call is the gradient of that call alone, and x keeps its values.        *)
(***************************************************************************)
C9_NoLeakBetweenCalls ==
    /\ pc = "l82" => xgrad = 0
    /\ pc = "l83" =>
          xgrad # 0 /\ heap[xgrad] = Attribution(OwnEntry, seed)
    /\ pc = "l89" =>
          heap[attr] = [k \in 1..n |->
                           IF call.post
                           THEN Attribution(OwnEntry, seed)[k] * TestBatch(n)[k]
                           ELSE Attribution(OwnEntry, seed)[k]]
    /\ pc \notin {"idle", "l59", "l63"} /\ run > 0 => heap[1] = TestBatch(n)

C9_Witness ==
    /\ pc = "main" /\ callIdx = 3 /\ hist.preGrad # 0
    /\ heap[xgrad] = Normalised(Attribution(OwnEntry, seed))

(***************************************************************************)
(* C10: a run fits and writes a pattern file exactly when the file is      *)
(* missing at its check, a run that finds the file uses its content, a     *)
(* file holds a completed fit, both files exist from the plotting step on, *)
(* and over all runs every file is fitted and written at most once.        *)
(***************************************************************************)
C10_FitAtMostOnce ==
    /\ \A p \in Paths :
          /\ StageDone(p) =>
                /\ p \in hist.fitted <=> p \notin hist.existed
                /\ p \in hist.wrote <=> p \notin hist.existed
                /\ p \in hist.existed => PatternsOf(p) = disk[p]
          /\ p \in hist.wrote =>
                p \in hist.fitted /\ disk[p] = FitPattern(p, weights)
          /\ p \in exists <=> hist.writeCount[p] > 0
          /\ hist.fitCount[p] <= 1 /\ hist.writeCount[p] <= 1
    /\ pc \notin BeforePos => exists = Paths

C10_Witness ==
    /\ run = 2 /\ pc = "l112" /\ hist.existed = Paths
    /\ \A p \in Paths : hist.fitCount[p] = 1 /\ hist.writeCount[p] = 1

(***************************************************************************)
(* run_and_plot_rule under any arguments: the process stands in main after *)
(* line 113 of its first run, and calls follow with a free rule            *)
(* identifier and a free pattern argument.                                 *)
(***************************************************************************)
RuleIds == Rules \cup {"lrp"}       \* "lrp" is not registered

AtMain(m, w) ==
    /\ run = 1 /\ pc = "main"
    /\ args = [batch_size |-> m, train_new |-> FALSE]
    /\ modelFile = w /\ exists = Paths
    /\ disk = [p \in Paths |-> FitPattern(p, w)]
    /\ weights = w /\ n = m
    /\ heap = <<TestBatch(m),
                Normalised([k \in 1..m |-> 2 * TestBatch(m)[k] - 1])>>
    /\ xgrad = 0
    /\ pred = [k \in 1..m |-> ArgMax(ModelOutput(w, TestBatch(m))[k])]
    /\ patterns_all = FitPattern("all", w)
    /\ patterns_pos = FitPattern("pos", w)
    /\ callIdx = 0 /\ call = NoCall /\ patLocal = <<>> /\ cache = <<>>
    /\ y_hat = <<>> /\ seed = <<>> /\ attr = 0
    /\ colors = GridShape(m)
    /\ labelReads = LabelIndices(GridShape(m))
    /\ hist = [NoHist EXCEPT !.checked = Paths, !.fitted = Paths,
                             !.wrote = Paths,
                             !.fitCount = [p \in Paths |-> 1],
                             !.writeCount = [p \in Paths |-> 1],
                             !.snap = [p \in Paths |-> FitPattern(p, w)]]
    /\ fit = NoFit

InitCalls == \E m \in 1..NRow, w \in 1..NumWeights : AtMain(m, w)

AnyCall ==
    /\ pc = "main" /\ callIdx < MaxAnyCalls
    /\ \E r \in RuleIds, pt \in {"none", "all", "pos"} :
          Enter([rule |-> r, post |-> (r = "gradient"), pat |-> pt,
                 copy |-> FALSE])

NextCalls ==
    \/ AnyCall
    \/ ResetGrad \/ Forward \/ Select \/ Backward \/ TakeAttr
    \/ PrepareAttr \/ PlotAttr

SpecCalls == InitCalls /\ [][NextCalls]_vars

LayerW == <<2, -1>>             \* weight of the layer
LayerB == 1                     \* bias of the layer
Features == 1..2
Samples == {<<1, 0>>, <<-1, 2>>, <<2, 2>>, <<0, -1>>}
BatchChoices ==
    {<<s>> : s \in Samples} \cup {<<<<1, 0>>, <<2, 2>>>>, <<<<0, -1>>, <<-1, 2>>>>}
Shards == 1..NumShards

LayerOut(x) == LayerW[1] * x[1] + LayerW[2] * x[2] + LayerB

ZeroAcc == [cnt |-> 0, sx |-> <<0, 0>>, sxy |-> <<0, 0>>]

\* One sample into the accumulator; the positive-only variant counts a
\* sample only where the pre-activation is positive.
AddSample(a, x, variant) ==
    IF variant = "pos" /\ LayerOut(x) <= 0 THEN a
    ELSE [cnt |-> a.cnt + 1,
          sx |-> [i \in Features |-> a.sx[i] + x[i]],
          sxy |-> [i \in Features |-> a.sxy[i] + x[i] * LayerOut(x)]]

RECURSIVE AddBatch(_, _, _)
AddBatch(a, b, variant) ==
    IF b = <<>> THEN a
    ELSE AddBatch(AddSample(a, Head(b), variant), Tail(b), variant)

\* A merge that keeps the count of the left accumulator.
MergeKeepCount(a, b) ==
    [cnt |-> a.cnt,
     sx |-> [i \in Features |-> a.sx[i] + b.sx[i]],
     sxy |-> [i \in Features |-> a.sxy[i] + b.sxy[i]]]

\* Merge of two partial accumulators: the sum, field by field.
MergeAcc(a, b) ==
    [cnt |-> a.cnt + b.cnt,
     sx |-> [i \in Features |-> a.sx[i] + b.sx[i]],
     sxy |-> [i \in Features |-> a.sxy[i] + b.sxy[i]]]

\* The Pattern of the layer: per feature the covariance of activation and
\* output over the covariance of projected activation and output, kept as
\* the pair <<numerator, denominator>>, both scaled by cnt * cnt.
PatternOf(a) ==
    LET sy == LayerW[1] * a.sx[1] + LayerW[2] * a.sx[2] + LayerB * a.cnt
        cov == [i \in Features |-> a.cnt * a.sxy[i] - a.sx[i] * sy]
    IN  [i \in Features |->
            <<cov[i], LayerW[1] * cov[1] + LayerW[2] * cov[2]>>]

\* The single pass over all batches in order.
RECURSIVE SinglePass(_, _, _)
SinglePass(a, bs, variant) ==
    IF bs = <<>> THEN a
    ELSE SinglePass(AddBatch(a, Head(bs), variant), Tail(bs), variant)

InitFit ==
    /\ Blank
    /\ \E bs \in [1..NumTrainBatches -> BatchChoices], v \in Paths :
          fit = [pcf |-> "fit", variant |-> v, batches |-> bs,
                 pending |-> 1..NumTrainBatches,
                 shard |-> [s \in Shards |-> ZeroAcc],
                 joined |-> {}, total |-> ZeroAcc,
                 pattern |-> PatternOf(ZeroAcc)]

mainVars == <<run, pc, args, modelFile, exists, disk, weights, n, heap,
              xgrad, pred, patterns_all, patterns_pos, callIdx, call,
              patLocal, cache, y_hat, seed, attr, colors, labelReads, hist>>

\* The worker of shard s takes any batch not yet taken.
Accumulate(s, b) ==
    /\ fit.pcf = "fit" /\ b \in fit.pending
    /\ fit' = [fit EXCEPT
                 !.pending = @ \ {b},
                 !.shard[s] = AddBatch(@, fit.batches[b], fit.variant)]
    /\ UNCHANGED mainVars

\* With every batch taken, the shards are merged in any order.
Merge(s) ==
    /\ fit.pcf = "fit" /\ fit.pending = {} /\ s \notin fit.joined
    /\ fit' = [fit EXCEPT !.joined = @ \cup {s},
                          !.total = MergeAcc(@, fit.shard[s])]
    /\ UNCHANGED mainVars

\* All shards merged: the Pattern is computed from the total.
Finalize ==
    /\ fit.pcf = "fit" /\ fit.joined = Shards
    /\ fit' = [fit EXCEPT !.pcf = "fitted", !.pattern = PatternOf(fit.total)]
    /\ UNCHANGED mainVars

NextFit ==
    \/ \E s \in Shards, b \in 1..NumTrainBatches : Accumulate(s, b)
    \/ \E s \in Shards : Merge(s)
    \/ Finalize

SpecFit == InitFit /\ [][NextFit]_vars

(***************************************************************************)
(* C5: whatever the partition of the batches into shards and whatever the  *)
(* order of the merges, the final accumulator, and with it the Pattern, is *)
(* that of a single pass over all batches in order.                        *)
(***************************************************************************)
C5_ShardedFitEqualsSinglePass ==
    /\ fit.pcf = "fit" /\ fit.joined = Shards =>
          fit.total = SinglePass(ZeroAcc, fit.batches, fit.variant)
    /\ fit.pcf = "fitted" =>
          /\ fit.total = SinglePass(ZeroAcc, fit.batches, fit.variant)
          /\ fit.pattern =
                PatternOf(SinglePass(ZeroAcc, fit.batches, fit.variant))

C5_Witness ==
    /\ fit.pcf = "fitted" /\ fit.variant = "pos"
    /\ \A s \in Shards : fit.shard[s].cnt > 0
    /\ fit.total.cnt > 1 /\ fit.total.cnt < NumTrainBatches
    /\ fit.pattern[1][2] # 0

====
